---- MODULE Spec2Model ----
(***************************************************************************)
(* Model of odooExternalApiConnector (src/odoo_external_api_connector.py). *)
(*                                                                         *)
(* One connector instance talks to one Odoo server.  A public operation is *)
(* started by Call and then advances one remote call at a time: version    *)
(* probe, database listing, authentication, access checks, data procedure. *)
(* Every remote call either returns a value or raises; the server's answer *)
(* is the nondeterministic input of the step.  Each action is the remote   *)
(* call together with the local code that runs up to the next remote call. *)
(*                                                                         *)
(* Python values are records [t, v, s]: t is the type tag, v a sequence of *)
(* naturals (the integer, the ids of a list, the keys of a mapping, the    *)
(* kinds of the elements of a descriptor list), s a string as a sequence   *)
(* of one-character strings.                                               *)
(***************************************************************************)
EXTENDS Integers, Sequences, FiniteSets, TLC

\* ------------------------------------------------------------------ bounds
\* Largest session id the server hands out.
MaxUid == 2
\* Largest record-id list a caller passes to update_record / delete_record.
MaxIds == 2
\* Largest model id the server assigns to a created ir.model record.
MaxModelId == 1
\* Longest field-descriptor list a caller passes to create_model.
MaxFields == 2

\* ------------------------------------------------------------ Python values
PyNone == [t |-> "None", v |-> <<>>, s |-> <<>>]
PyFalse == [t |-> "bool", v |-> <<0>>, s |-> <<>>]
PyTrue == [t |-> "bool", v |-> <<1>>, s |-> <<>>]
PyInt(n) == [t |-> "int", v |-> <<n>>, s |-> <<>>]
PyList(xs) == [t |-> "list", v |-> xs, s |-> <<>>]
PyDict(ks) == [t |-> "dict", v |-> ks, s |-> <<>>]
\* The mapping {'name': str}.
PyNameDict(str) == [t |-> "dict_name", v |-> <<>>, s |-> str]
\* The one-element list [{'name': str}].
PyListOfNameDict(str) == [t |-> "list_of_dict_name", v |-> <<>>, s |-> str]
\* The mapping {'name': name, 'model': x_name, 'state': 'manual'}.
PyModelDict(x_name) == [t |-> "dict_model", v |-> <<>>, s |-> x_name]

\* Python truthiness (bool(x)).
Truthy(x) ==
  CASE x.t = "None" -> FALSE
    [] x.t = "bool" -> x.v[1] = 1
    [] x.t = "int" -> x.v[1] # 0
    [] x.t = "list" -> Len(x.v) > 0
    [] x.t = "dict" -> Len(x.v) > 0
    [] OTHER -> TRUE

\* Python ==: values of different types (a dict and a list) are never equal.
PyEq(a, b) == a.t = b.t /\ a.v = b.v /\ a.s = b.s

\* Mutant: every value passes for a list.
IsListMut(x) == TRUE

\* isinstance(x, list)
IsList(x) == x.t \in {"list", "list_of_dict_name"}

\* ----------------------------------------------------------------- strings
Upper(c) ==
  CASE c = "p" -> "P" [] c = "r" -> "R" [] c = "t" -> "T"
    [] c = "m" -> "M" [] c = "x" -> "X" [] OTHER -> c

Lower(c) ==
  CASE c = "P" -> "p" [] c = "R" -> "r" [] c = "T" -> "t"
    [] c = "M" -> "m" [] c = "X" -> "x" [] OTHER -> c

\* str.split(sep, 1)[0]: the part before the first sep, the whole string if none.
SplitFirst(str, sep) ==
  IF \E i \in 1..Len(str) : str[i] = sep
  THEN SubSeq(str, 1, (CHOOSE i \in 1..Len(str) :
                         str[i] = sep /\ \A j \in 1..(i - 1) : str[j] # sep) - 1)
  ELSE str

\* str.replace(old, new) for one-character old and new.
Replace(str, old, new) == [i \in 1..Len(str) |-> IF str[i] = old THEN new ELSE str[i]]

\* str.lower()
LowerStr(str) == [i \in 1..Len(str) |-> Lower(str[i])]

\* str.capitalize(): first character upper-cased, the rest lower-cased.
Capitalize(str) == [i \in 1..Len(str) |-> IF i = 1 THEN Upper(str[i]) ELSE Lower(str[i])]

\* re.match('^(x_).+', str): "x_" followed by at least one character.
HasXPrefix(str) == Len(str) >= 3 /\ str[1] = "x" /\ str[2] = "_"

\* ---------------------------------------------------------- error messages
NoError == "None"
ConnError == "Can't connect to Odoo server."
AuthError == "Can't connect to the database using credentials provided."
NoDbError == "No database exists on the server."
CredError == "Username/password are not valid."
NameError == "Model name is required."
NoUpdateError == "No records to update."
NoDeleteError == "No records to delete."
FieldsFormatError == "Incorrect fields format. Should be a list of dictionaries."
FieldFormatError == "Wrong format of a field attributes. Should be dictionary of key-value pairs."
NotCreatedError == "The model was not created."
\* repr(err) of a fault raised by a remote procedure.
FaultRepr == "repr(Fault)"

PermError(right) ==
  CASE right = "read" -> "The model does not exist or you do not have a permission to 'read' it."
    [] right = "create" -> "The model does not exist or you do not have a permission to 'create' it."
    [] right = "write" -> "The model does not exist or you do not have a permission to 'write' it."
    [] right = "unlink" -> "The model does not exist or you do not have a permission to 'unlink' it."

\* ------------------------------------------------------- public operations
Ops == {"get_ids", "get_records", "get_count", "get_fields",
        "create_record", "update_record", "delete_record", "create_model"}

\* access_scope each operation passes to _check_model_access.
AccessScope(op) ==
  CASE op \in {"get_ids", "get_records", "get_count", "get_fields"} -> <<"read">>
    [] op = "create_record" -> <<"read", "create">>
    [] op = "update_record" -> <<"read", "write">>
    [] op = "delete_record" -> <<"read", "unlink">>
    [] op = "create_model" -> <<"read", "create", "unlink">>

\* The result key of each operation's envelope.
PrimaryKey(op) ==
  CASE op \in {"get_ids", "update_record"} -> "ids"
    [] op = "get_records" -> "records"
    [] op \in {"get_count", "delete_record"} -> "count"
    [] op = "get_fields" -> "fields"
    [] op \in {"create_record", "create_model"} -> "id"

\* The value the result key carries when the envelope carries an error.
NullOf(op) == IF op = "delete_record" THEN PyInt(0) ELSE PyNone

\* The remote procedure each operation invokes after the access checks.
DataProc(op) ==
  CASE op = "get_ids" -> "search"
    [] op = "get_records" -> "search_read"
    [] op = "get_count" -> "search_count"
    [] op = "get_fields" -> "fields_get"
    [] op = "create_record" -> "create"
    [] op = "update_record" -> "write"
    [] op = "delete_record" -> "unlink"
    [] op = "create_model" -> "create"

Envelope(op, err, val) == [kind |-> "envelope", error |-> err, key |-> PrimaryKey(op), value |-> val]
ErrEnvelope(op, err) == Envelope(op, err, NullOf(op))
\* An exception that leaves the public operation.
Raised == [kind |-> "raise", error |-> FaultRepr, key |-> "", value |-> PyNone]
NoResult == [kind |-> "none", error |-> NoError, key |-> "", value |-> PyNone]

\* Mutant: only None counts as a missing name.
NameGivenMut(m) == ~m.isNone

\* `if model_name:` -- None and the empty string are both false.
NameGiven(m) == ~m.isNone /\ Len(m.str) > 0

\* -------------------------------------------------------------------- state
VARIABLES
  db,            \* self.db: the configured database name, "None" when not configured
  uid,           \* self.uid: the cached session id
  srvDbs,        \* server: the databases, in the order list() reports them
  srvValid,      \* server: the set of databases that accept the connector's credentials
  srvModels,     \* server: ids of the ir.model records that exist
  pc,            \* position of the operation in progress, "idle" between operations
  cur,           \* the operation in progress and its arguments
  error,         \* local `error` of _authenticate, then of _check_model_access
  connected_db,  \* local `connected_db` of _authenticate, then cursor["db"]
  idx,           \* index of the database / access right the running loop is at
  id,            \* local `id` of create_model
  log,           \* remote calls issued by the operation in progress, in order
  ret,           \* what the last operation gave its caller
  lastAttempt,   \* outcome of the most recent conn.authenticate call
  lastReturned   \* value of the most recent conn.authenticate call that returned

vars == <<db, uid, srvDbs, srvValid, srvModels, pc, cur, error, connected_db,
          idx, id, log, ret, lastAttempt, lastReturned>>

\* self.db as the constructor is given it: not configured, or one name.
ConfiguredDbs == {"None", "d1"}
DbLists == {<<>>, <<"d1">>, <<"d1", "d2">>}

\* Arguments the callers pass.
ModelNames == {[isNone |-> TRUE, str |-> <<>>],
               [isNone |-> FALSE, str |-> <<>>],
               [isNone |-> FALSE, str |-> <<"p", "R", ".", "t", ".", "m">>],
               [isNone |-> FALSE, str |-> <<"M", " ", "t">>]}
IdLists == {PyList([i \in 1..n |-> i]) : n \in 0..MaxIds}
\* Field-value mappings: the empty one (the default), an empty list passed in
\* its place, and a mapping with one key.
FieldMaps == {PyDict(<<>>), PyList(<<>>), PyDict(<<1>>)}
\* create_model's fields: lists whose elements are mappings (1) or not (0), and
\* a value that is no list.
DescriptorLists == {PyList(ks) : ks \in UNION {[1..n -> {0, 1}] : n \in 0..MaxFields}}
                     \cup {PyDict(<<1>>)}

ArgsOf(op) ==
  CASE op = "create_record" -> {[ids |-> PyList(<<>>), fields |-> f] : f \in FieldMaps}
    [] op = "update_record" -> {[ids |-> i, fields |-> f] : i \in IdLists, f \in FieldMaps \ {PyList(<<>>)}}
    [] op = "delete_record" -> {[ids |-> i, fields |-> PyDict(<<>>)] : i \in IdLists}
    [] op = "create_model" -> {[ids |-> PyList(<<>>), fields |-> f] : f \in DescriptorLists}
    [] OTHER -> {[ids |-> PyList(<<>>), fields |-> PyList(<<>>)]}

NoCall == [op |-> "none", model_name |-> [isNone |-> TRUE, str |-> <<>>],
           ids |-> PyList(<<>>), fields |-> PyDict(<<>>)]

\* One remote call: the procedure, what it was addressed to (a database, an
\* access right, a collection), whether it returned or raised, the value it
\* returned and the payload it was sent.
RemoteCall(proc, on, out, val, sent) ==
  [proc |-> proc, on |-> on, out |-> out, val |-> val, sent |-> sent]

Init ==
  /\ db \in ConfiguredDbs
  /\ uid = PyNone
  /\ srvDbs \in DbLists
  /\ srvValid \in SUBSET {srvDbs[i] : i \in 1..Len(srvDbs)}
  /\ srvModels = {}
  /\ pc = "idle"
  /\ cur = NoCall
  /\ error = NoError
  /\ connected_db = "None"
  /\ idx = 0
  /\ id = PyNone
  /\ log = <<>>
  /\ ret = NoResult
  /\ lastAttempt = [out |-> "none", val |-> PyNone]
  /\ lastReturned = PyNone

\* The operation hands `r` to its caller.
Return(r) == pc' = "done" /\ ret' = r

InServerDbs(d) == \E i \in 1..Len(srvDbs) : srvDbs[i] = d

\* Between two operations the server's administrator may change which
\* databases accept the connector's credentials (a password changed, a user
\* disabled or restored).
CredentialsChange ==
  /\ pc = "idle"
  /\ \E v \in SUBSET {srvDbs[i] : i \in 1..Len(srvDbs)} :
       v # srvValid /\ srvValid' = v
  /\ UNCHANGED <<db, uid, srvDbs, srvModels, pc, cur, error, connected_db, idx, id,
                 log, ret, lastAttempt, lastReturned>>

\* ------------------------------------------------------------ entry points
\* A caller invokes a public operation.  `if model_name:` comes first in every
\* operation; without a name the operation returns at once.
Call ==
  /\ pc = "idle"
  /\ \E op \in Ops, m \in ModelNames : \E a \in ArgsOf(op) :
       /\ cur' = [op |-> op, model_name |-> m, ids |-> a.ids, fields |-> a.fields]
       /\ IF NameGiven(m)
          THEN pc' = "version" /\ ret' = ret
          ELSE Return(ErrEnvelope(op, NameError))
  /\ UNCHANGED <<db, uid, srvDbs, srvValid, srvModels, error, connected_db, idx,
                 id, log, lastAttempt, lastReturned>>

\* The caller has the result; the locals of the finished operation are gone
\* and only the connector's fields and the server's state remain.
ReturnToCaller ==
  /\ pc = "done"
  /\ pc' = "idle"
  /\ cur' = NoCall
  /\ log' = <<>>
  /\ ret' = NoResult
  /\ error' = NoError
  /\ connected_db' = "None"
  /\ idx' = 0
  /\ id' = PyNone
  /\ UNCHANGED <<db, uid, srvDbs, srvValid, srvModels, lastAttempt, lastReturned>>

\* _create_connection: conn.version() as the liveness probe.
CreateConnection ==
  /\ pc = "version"
  /\ \E out \in {"ret", "raise"} :
       /\ log' = Append(log, RemoteCall("version", "common", out, PyNone, PyNone))
       /\ IF out = "raise"
          THEN /\ error' = ConnError
               /\ Return(ErrEnvelope(cur.op, ConnError))
               /\ idx' = idx
          ELSE /\ error' = NoError
               /\ ret' = ret
               /\ IF db # "None"
                  THEN pc' = "auth" /\ idx' = 0
                  ELSE pc' = "dblist" /\ idx' = idx
  /\ UNCHANGED <<db, uid, srvDbs, srvValid, srvModels, cur, connected_db, id,
                 lastAttempt, lastReturned>>

\* _get_db_name: sock.list(), outside any try block.
GetDbName ==
  /\ pc = "dblist"
  /\ \E out \in {"ret", "raise"} :
       /\ log' = Append(log, RemoteCall("list", "db", out, PyNone, PyNone))
       /\ IF out = "raise"
          THEN Return(Raised) /\ error' = error /\ idx' = idx
          ELSE IF srvDbs = <<>>
               THEN /\ error' = NoDbError
                    /\ Return(ErrEnvelope(cur.op, NoDbError))
                    /\ idx' = idx
               ELSE /\ pc' = "auth" /\ idx' = 1 /\ error' = error /\ ret' = ret
  /\ UNCHANGED <<db, uid, srvDbs, srvValid, srvModels, cur, connected_db, id,
                 lastAttempt, lastReturned>>

\* What conn.authenticate(d, ...) can answer: a session id when the database
\* exists and accepts the credentials; a rejection otherwise, signalled by a
\* raised fault or, for an existing database, by the value False.
AuthOutcomes(d) ==
  IF InServerDbs(d) /\ d \in srvValid
  THEN {[out |-> "ret", val |-> PyInt(u)] : u \in 1..MaxUid}
  ELSE {[out |-> "raise", val |-> PyNone]}
         \cup (IF InServerDbs(d) THEN {[out |-> "ret", val |-> PyFalse]} ELSE {})

\* Mutant: a rejected attempt clears the cached id.
UidAfterMut(old, o) == IF o.out = "ret" THEN o.val ELSE PyNone

\* self.uid after conn.authenticate answered: the assignment happens only
\* when the call returns.
UidAfter(old, o) == IF o.out = "ret" THEN o.val ELSE old

\* Whether the database loop stops after an attempt on srvDbs[i].
LoopStops(o, i) == o.out = "ret" \/ i = Len(srvDbs)

\* _authenticate: one conn.authenticate call, against self.db or against the
\* next database of the list.
Authenticate ==
  /\ pc = "auth"
  /\ LET d == IF db # "None" THEN db ELSE srvDbs[idx] IN
     \E o \in AuthOutcomes(d) :
       /\ log' = Append(log, RemoteCall("authenticate", d, o.out, o.val, PyNone))
       /\ lastAttempt' = o
       /\ lastReturned' = IF o.out = "ret" THEN o.val ELSE lastReturned
       /\ uid' = UidAfter(uid, o)
       /\ IF o.out = "ret"
          THEN /\ error' = NoError
               /\ connected_db' = d
               /\ pc' = "check" /\ idx' = 1 /\ ret' = ret
          ELSE /\ error' = AuthError
               /\ connected_db' = connected_db
               /\ IF db # "None" \/ LoopStops(o, idx)
                  THEN Return(ErrEnvelope(cur.op, AuthError)) /\ idx' = idx
                  ELSE pc' = "auth" /\ idx' = idx + 1 /\ ret' = ret
  /\ UNCHANGED <<db, srvDbs, srvValid, srvModels, cur, id>>

\* The loop of _check_model_access after the check of the right at index i
\* answered `out`: a false answer breaks out, a raised fault does not.
CheckLoopEnds(out, scope, i) == out = "false" \/ i = Len(scope)

\* Mutant: a granted right clears the error an earlier right left.
ErrorAfterCheckMut(old, out, right) ==
  CASE out = "false" -> PermError(right)
    [] out = "raise" -> CredError
    [] OTHER -> NoError

\* `error` of _check_model_access after one check: set on a false answer and
\* on a fault, never cleared by a later right that is granted.
ErrorAfterCheck(old, out, right) ==
  CASE out = "false" -> PermError(right)
    [] out = "raise" -> CredError
    [] OTHER -> old

\* _check_model_access: one check_access_rights call.
CheckModelAccess ==
  /\ pc = "check"
  /\ LET scope == AccessScope(cur.op)
         right == scope[idx] IN
     \E out \in {"true", "false", "raise"} :
       LET e == ErrorAfterCheck(error, out, right) IN
       /\ log' = Append(log, RemoteCall("check_access_rights", right,
                                        IF out = "raise" THEN "raise" ELSE "ret",
                                        IF out = "true" THEN PyTrue
                                        ELSE IF out = "false" THEN PyFalse ELSE PyNone,
                                        PyNone))
       /\ error' = e
       /\ IF CheckLoopEnds(out, scope, idx)
          THEN IF e # NoError
               THEN Return(ErrEnvelope(cur.op, e)) /\ idx' = idx
               ELSE pc' = "body" /\ idx' = idx /\ ret' = ret
          ELSE pc' = "check" /\ idx' = idx + 1 /\ ret' = ret
  /\ UNCHANGED <<db, uid, srvDbs, srvValid, srvModels, cur, connected_db, id,
                 lastAttempt, lastReturned>>

\* --------------------------------------------------------- data procedures
\* What the object endpoint can answer when a data procedure returns.
ServerReturns(proc) ==
  CASE proc = "search" -> {PyList(<<>>), PyList(<<1>>)}
    [] proc = "search_read" -> {PyList(<<>>), PyList(<<1>>)}
    [] proc = "search_count" -> {PyInt(0), PyInt(1)}
    [] proc = "fields_get" -> {PyDict(<<>>), PyDict(<<1>>)}
    [] proc = "create" -> {PyInt(1)}
    [] proc = "write" -> {PyTrue}
    [] proc = "unlink" -> {PyTrue, PyFalse}

\* The answers of model.execute_kw(..., proc, ...): a returned value or a fault.
Outcomes(proc) ==
  {[out |-> "ret", val |-> x] : x \in ServerReturns(proc)}
    \cup {[out |-> "raise", val |-> PyNone]}

\* The four getters: one remote call, its value passed through, a fault wrapped.
Getter(op) ==
  /\ pc = "body" /\ cur.op = op
  /\ \E o \in Outcomes(DataProc(op)) :
       /\ log' = Append(log, RemoteCall(DataProc(op), "model_name", o.out, o.val, PyNone))
       /\ Return(IF o.out = "ret" THEN Envelope(op, NoError, o.val)
                 ELSE ErrEnvelope(op, FaultRepr))
  /\ UNCHANGED <<db, uid, srvDbs, srvValid, srvModels, cur, error, connected_db,
                 idx, id, lastAttempt, lastReturned>>

GetIds == Getter("get_ids")
GetRecords == Getter("get_records")
GetCount == Getter("get_count")
GetFields == Getter("get_fields")

\* "New " as a string.
NewPrefix == <<"N", "e", "w", " ">>

\* The `fields` create_record sends: synthesized only when the argument
\* compares equal to the empty list.
RecordPayload(model_name, fields) ==
  IF PyEq(fields, PyList(<<>>))
  THEN PyListOfNameDict(NewPrefix \o Capitalize(Replace(SplitFirst(model_name.str, "."), ".", "_")))
  ELSE fields

CreateRecord ==
  /\ pc = "body" /\ cur.op = "create_record"
  /\ \E o \in Outcomes("create") :
       /\ log' = Append(log, RemoteCall("create", "model_name", o.out, o.val,
                                        RecordPayload(cur.model_name, cur.fields)))
       /\ Return(IF o.out = "ret" THEN Envelope(cur.op, NoError, o.val)
                 ELSE ErrEnvelope(cur.op, FaultRepr))
  /\ UNCHANGED <<db, uid, srvDbs, srvValid, srvModels, cur, error, connected_db,
                 idx, id, lastAttempt, lastReturned>>

\* Mutant: the empty id list is not rejected.
NoIdsMut(ids) == FALSE

\* `ids == []`
NoIds(ids) == PyEq(ids, PyList(<<>>))
\* Mutant: the empty mapping is not short-circuited.
NoFieldsMut(fields) == FALSE

\* `fields == {}`
NoFields(fields) == PyEq(fields, PyDict(<<>>))

UpdateRecord ==
  /\ pc = "body" /\ cur.op = "update_record"
  /\ IF NoIds(cur.ids)
     THEN Return(Envelope(cur.op, NoUpdateError, PyNone)) /\ log' = log
     ELSE IF NoFields(cur.fields)
     THEN Return(Envelope(cur.op, NoError, cur.ids)) /\ log' = log
     ELSE \E o \in Outcomes("write") :
            /\ log' = Append(log, RemoteCall("write", "model_name", o.out, o.val, cur.fields))
            /\ Return(IF o.out = "ret" THEN Envelope(cur.op, NoError, cur.ids)
                      ELSE Envelope(cur.op, FaultRepr, PyNone))
  /\ UNCHANGED <<db, uid, srvDbs, srvValid, srvModels, cur, error, connected_db,
                 idx, id, lastAttempt, lastReturned>>

\* Mutant: the count follows the server's answer.
DeletedCountMut(ids, val) == IF Truthy(val) THEN PyInt(Len(ids.v)) ELSE PyInt(0)

\* The count delete_record reports after unlink returned.
DeletedCount(ids, val) == PyInt(Len(ids.v))

DeleteRecord ==
  /\ pc = "body" /\ cur.op = "delete_record"
  /\ IF NoIds(cur.ids)
     THEN Return(Envelope(cur.op, NoDeleteError, PyInt(0))) /\ log' = log
     ELSE \E o \in Outcomes("unlink") :
            /\ log' = Append(log, RemoteCall("unlink", "model_name", o.out, o.val, cur.ids))
            /\ Return(IF o.out = "ret" THEN Envelope(cur.op, NoError, DeletedCount(cur.ids, o.val))
                      ELSE Envelope(cur.op, FaultRepr, PyInt(0)))
  /\ UNCHANGED <<db, uid, srvDbs, srvValid, srvModels, cur, error, connected_db,
                 idx, id, lastAttempt, lastReturned>>

\* ------------------------------------------------------------ create_model
\* The technical name: lower-cased, spaces to underscores, "x_" prefixed
\* unless already there.
TechnicalName(str) ==
  LET l == Replace(LowerStr(str), " ", "_") IN
  IF HasXPrefix(l) THEN l ELSE <<"x", "_">> \o l

\* What create on ir.model can answer: a fault, a false id, or the id of a
\* record the server did not have.
ModelCreateOutcomes ==
  {[out |-> "raise", val |-> PyNone], [out |-> "ret", val |-> PyFalse]}
    \cup {[out |-> "ret", val |-> PyInt(n)] : n \in (1..MaxModelId) \ srvModels}

\* The descriptor loop meets an element that is no mapping.
HasNonMapping(fields) == \E k \in 1..Len(fields.v) : fields.v[k] = 0

\* create_model from the fields check to the end of the descriptor loop: the
\* remote create on ir.model and what follows it locally.
CreateModel ==
  /\ pc = "body" /\ cur.op = "create_model"
  /\ IF ~IsList(cur.fields)
     THEN /\ Return(ErrEnvelope(cur.op, FieldsFormatError))
          /\ UNCHANGED <<log, id, srvModels, error>>
     ELSE \E o \in ModelCreateOutcomes :
            /\ log' = Append(log, RemoteCall("create", "ir.model", o.out, o.val,
                                             PyModelDict(TechnicalName(cur.model_name.str))))
            /\ IF o.out = "raise"
               THEN Return(ErrEnvelope(cur.op, FaultRepr)) /\ UNCHANGED <<id, srvModels, error>>
               ELSE /\ id' = o.val
                    /\ srvModels' = IF Truthy(o.val) THEN srvModels \cup {o.val.v[1]} ELSE srvModels
                    /\ IF ~Truthy(o.val)
                       THEN Return(ErrEnvelope(cur.op, NotCreatedError)) /\ error' = error
                       ELSE IF PyEq(cur.fields, PyList(<<>>))
                       THEN Return(Envelope(cur.op, NoError, o.val)) /\ error' = error
                       ELSE IF HasNonMapping(cur.fields)
                       THEN pc' = "unlink" /\ error' = FieldFormatError /\ ret' = ret
                       ELSE pc' = "fields" /\ error' = error /\ ret' = ret
  /\ UNCHANGED <<db, uid, srvDbs, srvValid, cur, connected_db, idx,
                 lastAttempt, lastReturned>>

\* The bulk create on ir.model.fields.
CreateModelFields ==
  /\ pc = "fields"
  /\ \E out \in {"ret", "raise"} :
       /\ log' = Append(log, RemoteCall("create", "ir.model.fields", out, PyNone, cur.fields))
       /\ IF out = "ret"
          THEN Return(Envelope(cur.op, NoError, id)) /\ error' = error
          ELSE pc' = "unlink" /\ error' = FaultRepr /\ ret' = ret
  /\ UNCHANGED <<db, uid, srvDbs, srvValid, srvModels, cur, connected_db, idx, id,
                 lastAttempt, lastReturned>>

\* What the operation gives its caller after the compensating unlink
\* answered: the call is in no try block, so its fault leaves the operation.
AfterUnlink(out, op, err) == IF out = "ret" THEN ErrEnvelope(op, err) ELSE Raised

\* The compensating unlink of the model, after a descriptor that is no mapping
\* or after a fault of the bulk create; `error` holds the error to report.
CreateModelUnlink ==
  /\ pc = "unlink"
  /\ \E out \in {"ret", "raise"} :
       /\ log' = Append(log, RemoteCall("unlink", "ir.model", out,
                                        IF out = "ret" THEN PyTrue ELSE PyNone, id))
       /\ srvModels' = IF out = "ret" THEN srvModels \ {id.v[1]} ELSE srvModels
       /\ Return(AfterUnlink(out, cur.op, error))
  /\ UNCHANGED <<db, uid, srvDbs, srvValid, cur, error, connected_db, idx, id,
                 lastAttempt, lastReturned>>

Next ==
  \/ Call
  \/ ReturnToCaller
  \/ CredentialsChange
  \/ CreateConnection
  \/ GetDbName
  \/ Authenticate
  \/ CheckModelAccess
  \/ GetIds
  \/ GetRecords
  \/ GetCount
  \/ GetFields
  \/ CreateRecord
  \/ UpdateRecord
  \/ DeleteRecord
  \/ CreateModel
  \/ CreateModelFields
  \/ CreateModelUnlink

Spec == Init /\ [][Next]_vars

\* ================================================================== claims
\* Vocabulary of the claims, read off the log of the operation in progress.
IsDataCall(c) == c.on \in {"model_name", "ir.model", "ir.model.fields"}
IsCheck(c) == c.proc = "check_access_rights"
IsAuth(c) == c.proc = "authenticate"
Finished == pc = "done"
Issued(proc, on) == \E i \in 1..Len(log) : log[i].proc = proc /\ log[i].on = on
Faulted(proc, on) ==
  \E i \in 1..Len(log) : log[i].proc = proc /\ log[i].on = on /\ log[i].out = "raise"
\* The databases authentication was attempted against, in order.
AuthAttempts == [i \in 1..Len(SelectSeq(log, IsAuth)) |-> SelectSeq(log, IsAuth)[i].on]
\* Every right of the operation's scope was checked, in order, and granted.
AccessGranted ==
  LET checks == SelectSeq(log, IsCheck) IN
  /\ Len(checks) = Len(AccessScope(cur.op))
  /\ \A r \in 1..Len(checks) :
       checks[r].on = AccessScope(cur.op)[r] /\ checks[r].out = "ret" /\ checks[r].val = PyTrue
\* The remote create on ir.model returned a model id.
ModelCreated ==
  \E i \in 1..Len(log) :
    /\ log[i].proc = "create" /\ log[i].on = "ir.model"
    /\ log[i].out = "ret" /\ log[i].val.t = "int" /\ log[i].val.v[1] > 0

\* C1: a finished public operation has handed its caller an envelope; a fault
\* reaches the caller only from the database listing, with no database
\* configured.
C1_NoFaultEscapes ==
  (Finished /\ ret.kind = "raise")
    => (db = "None" /\ log[Len(log)].proc = "list" /\ log[Len(log)].out = "raise")

\* C2: in create_model, once ir.model create returned an id, a descriptor that
\* is no mapping leads to an unlink of the model, no create on ir.model.fields
\* and the format error with id null; a fault of the bulk create leads to an
\* unlink and the fault with id null; in both cases the model is gone from the
\* server.
C2_FieldFailureCompensated ==
  (Finished /\ cur.op = "create_model" /\ ModelCreated)
    => /\ HasNonMapping(cur.fields)
            => /\ Issued("unlink", "ir.model")
               /\ ~Issued("create", "ir.model.fields")
               /\ ret = Envelope("create_model", FieldFormatError, PyNone)
               /\ id.v[1] \notin srvModels
       /\ Faulted("create", "ir.model.fields")
            => /\ Issued("unlink", "ir.model")
               /\ ret = Envelope("create_model", FaultRepr, PyNone)
               /\ id.v[1] \notin srvModels
       /\ (ret.kind = "raise" \/ ret.error # NoError) => id.v[1] \notin srvModels

\* C3: with no database configured and a listed database that accepts the
\* credentials, the database the operation goes on with is the first of the
\* server's list that accepts them, and the attempts made are exactly the
\* databases up to it, each once, in order.
C3_FirstAcceptingDatabase ==
  (db = "None" /\ connected_db # "None" /\ srvValid # {})
    => \E k \in 1..Len(srvDbs) :
         /\ srvDbs[k] = connected_db
         /\ srvDbs[k] \in srvValid
         /\ \A j \in 1..(k - 1) : srvDbs[j] \notin srvValid
         /\ AuthAttempts = SubSeq(srvDbs, 1, k)

\* The checks of the operation in progress that were denied or raised.
FailedChecks ==
  SelectSeq(log, LAMBDA c : IsCheck(c) /\ (c.out = "raise" \/ c.val = PyFalse))
\* The error _check_model_access reports for a failed check.
AccessErrorOf(c) == IF c.out = "raise" THEN CredError ELSE PermError(c.on)
\* Authentication failed: no connection, no database, or the last attempt
\* was rejected with a fault.
AuthFailure ==
  IF Faulted("version", "common") THEN ConnError
  ELSE IF log # <<>> /\ log[Len(log)].proc = "list" /\ log[Len(log)].out = "ret"
  THEN NoDbError
  ELSE IF log # <<>> /\ IsAuth(log[Len(log)]) /\ log[Len(log)].out = "raise"
  THEN AuthError
  ELSE NoError

Succeeded ==
  /\ AccessGranted
  /\ AuthAttempts # <<>> /\ SelectSeq(log, IsAuth)[Len(AuthAttempts)].out = "ret"
  /\ \A i \in 1..Len(log) : log[i].out = "ret" \/ IsAuth(log[i])
  /\ \/ Issued(DataProc(cur.op), IF cur.op = "create_model" THEN "ir.model" ELSE "model_name")
     \/ cur.op = "update_record" /\ cur.fields = PyDict(<<>>)
  /\ cur.op = "create_model" => ModelCreated

\* C5: an envelope carries either an error or a populated result (not None;
\* not 0 for delete_record), never both and never neither, and an envelope
\* without an error reports an operation that succeeded.
C5_EnvelopeWellFormed ==
  (Finished /\ ret.kind = "envelope")
    => /\ (ret.error # NoError) # (ret.value # (IF cur.op = "delete_record" THEN PyInt(0) ELSE PyNone))
       /\ ret.error = NoError => Succeeded

\* C5 witness: an envelope without an error after a fault of an earlier
\* authentication attempt in the same call.
C5_Witness ==
  /\ Finished /\ ret.kind = "envelope" /\ ret.error = NoError
  /\ Faulted("authenticate", "d1")

\* C6: create_record called with the default empty mapping sends the remote
\* create the mapping {name: "New <Root>"}, <Root> the capitalized part of the
\* collection name before its first '.'; a non-empty mapping is sent as given.
C6_DefaultFieldsSynthesized ==
  \A i \in 1..Len(log) :
    (cur.op = "create_record" /\ log[i].proc = "create")
      => IF cur.fields = PyDict(<<>>)
         THEN log[i].sent = PyNameDict(NewPrefix \o Capitalize(SplitFirst(cur.model_name.str, ".")))
         ELSE cur.fields.t = "dict" => log[i].sent = cur.fields

\* C7 as stated, for calls that name a model: update_record invokes write only with a non-empty id list
\* and a non-empty mapping; with an empty id list it returns "No records to
\* update." with ids null; with ids and an empty mapping it returns the ids
\* without an error.
C7_UpdateValidation ==
  (Finished /\ cur.op = "update_record" /\ cur.model_name.str # <<>>)
    => /\ Issued("write", "model_name") => (cur.ids.v # <<>> /\ cur.fields.v # <<>>)
       /\ cur.ids.v = <<>> => ret = Envelope("update_record", NoUpdateError, PyNone)
       /\ (cur.ids.v # <<>> /\ cur.fields.v = <<>>)
            => ret = Envelope("update_record", NoError, cur.ids)

\* C7 amended: write is invoked only with a non-empty id list and a non-empty
\* mapping; when the model name is given and the read and write checks were
\* granted, an empty id list gives "No records to update." with ids null and
\* ids with an empty mapping give the ids back without an error.
C7_UpdateValidationAfterAccess ==
  (Finished /\ cur.op = "update_record")
    => /\ Issued("write", "model_name") => (cur.ids.v # <<>> /\ cur.fields.v # <<>>)
       /\ AccessGranted
            => /\ cur.ids.v = <<>> => ret = Envelope("update_record", NoUpdateError, PyNone)
               /\ (cur.ids.v # <<>> /\ cur.fields.v = <<>>)
                    => ret = Envelope("update_record", NoError, cur.ids)

\* C7 witness: ids and an empty mapping, access granted, the ids echoed back.
C7_Witness ==
  /\ Finished /\ cur.op = "update_record" /\ AccessGranted
  /\ cur.ids.v # <<>> /\ cur.fields.v = <<>> /\ ret.error = NoError

\* C8 as stated, for calls that name a model: delete_record with an empty id list returns "No records to
\* delete." with count 0 and invokes no unlink; with N >= 1 ids, unlink
\* returning gives no error and count N whatever the server answered; unlink
\* raising gives the fault and count 0.
C8_DeleteCount ==
  (Finished /\ cur.op = "delete_record" /\ cur.model_name.str # <<>>)
    => /\ cur.ids.v = <<>>
            => /\ ret = Envelope("delete_record", NoDeleteError, PyInt(0))
               /\ ~Issued("unlink", "model_name")
       /\ \A i \in 1..Len(log) :
            log[i].proc = "unlink"
              => /\ Len(cur.ids.v) >= 1
                 /\ ret = IF log[i].out = "ret"
                          THEN Envelope("delete_record", NoError, PyInt(Len(cur.ids.v)))
                          ELSE Envelope("delete_record", FaultRepr, PyInt(0))

\* C8 amended: the same, the error of an empty id list being "No records to
\* delete." when the model name is given and the read and unlink checks were
\* granted.
C8_DeleteCountAfterAccess ==
  (Finished /\ cur.op = "delete_record")
    => /\ cur.ids.v = <<>>
            => /\ AccessGranted => ret = Envelope("delete_record", NoDeleteError, PyInt(0))
               /\ ret.kind = "envelope" => ret.value = PyInt(0)
               /\ ~Issued("unlink", "model_name")
       /\ \A i \in 1..Len(log) :
            log[i].proc = "unlink"
              => /\ Len(cur.ids.v) >= 1
                 /\ ret = IF log[i].out = "ret"
                          THEN Envelope("delete_record", NoError, PyInt(Len(cur.ids.v)))
                          ELSE Envelope("delete_record", FaultRepr, PyInt(0))

\* C8 witness: unlink answered False for two ids and the count is 2.
C8_Witness ==
  /\ Finished /\ cur.op = "delete_record" /\ Len(cur.ids.v) = 2
  /\ \E i \in 1..Len(log) : log[i].proc = "unlink" /\ log[i].val = PyFalse
  /\ ret.error = NoError

\* C9: an operation called without a model name (None or empty) ends at once
\* with "Model name is required." and a null (zero for delete_record) result,
\* issues no remote call and leaves the cached session id as it was.
C9_NameRequired ==
  [][(pc = "idle" /\ cur'.op \in Ops
        /\ (cur'.model_name.isNone \/ cur'.model_name.str = <<>>))
       => /\ pc' = "done"
          /\ ret' = [kind |-> "envelope", error |-> NameError, key |-> PrimaryKey(cur'.op),
                     value |-> IF cur'.op = "delete_record" THEN PyInt(0) ELSE PyNone]
          /\ log' = <<>>
          /\ uid' = uid]_vars

\* C9 witness: create_model without a name on a connector that has a cached
\* session id.
C9_Witness ==
  /\ Finished /\ cur.op = "create_model" /\ cur.model_name.str = <<>>
  /\ uid.t = "int" /\ log = <<>>

\* C10 as stated: between operations the cached session id, if present, was
\* issued by the most recent authentication attempt.
C10_UidFromLastAttempt ==
  (pc \in {"idle", "done"} /\ uid.t = "int")
    => (lastAttempt.out = "ret" /\ lastAttempt.val = uid)

\* C10 amended: the cached session id is the value of the most recent
\* authentication attempt that returned (None before any returned); an
\* attempt that raises leaves it as it was.
C10_UidFromLastReturned ==
  uid = lastReturned

\* C10 witness: the last attempt raised and the id of an earlier call is
\* still cached.
C10_Witness ==
  lastAttempt.out = "raise" /\ uid.t = "int" /\ Finished

\* C11: the rights are checked in the given order; once a check was denied
\* or raised no later right is checked in that call, and the error returned
\* is the one of that first failing right.
C11_ChecksShortCircuit ==
  LET checks == SelectSeq(log, IsCheck) IN
  /\ \A r \in 1..Len(checks) : checks[r].on = AccessScope(cur.op)[r]
  /\ \A r \in 1..Len(checks) :
       (checks[r].out = "raise" \/ checks[r].val = PyFalse) => r = Len(checks)
  /\ (Finished /\ FailedChecks # <<>>)
       => ret = ErrEnvelope(cur.op, AccessErrorOf(FailedChecks[1]))

\* C12 as stated: create_model with a model name and a fields argument that
\* is no list returns the format error with id null and issues no remote call
\* at all.
C12_NonListRejectedBeforeAnyCall ==
  (Finished /\ cur.op = "create_model" /\ cur.model_name.str # <<>> /\ cur.fields.t # "list")
    => /\ ret = Envelope("create_model", FieldsFormatError, PyNone)
       /\ log = <<>>

\* C12 amended: such a call issues no create and no unlink, so no model
\* record is created, and it never ends without an error; the version probe,
\* authentication and the access checks on ir.model come first, and the format
\* error with id null is what the call returns once they succeeded.
C12_NonListRejectedBeforeCreate ==
  (cur.op = "create_model" /\ cur.model_name.str # <<>> /\ cur.fields.t # "list")
    => /\ \A i \in 1..Len(log) : ~IsDataCall(log[i])
       /\ pc \notin {"fields", "unlink"}
       /\ Finished
            => /\ ret.kind = "envelope" => (ret.error # NoError /\ ret.value = PyNone)
               /\ AccessGranted => ret = Envelope("create_model", FieldsFormatError, PyNone)

\* C12 witness: a mapping passed as fields, the three rights granted, the
\* format error returned.
C12_Witness ==
  /\ Finished /\ cur.op = "create_model" /\ cur.fields.t = "dict" /\ AccessGranted
  /\ ret.error = FieldsFormatError /\ Len(log) >= 5

\* What holds of C11: a denied check is the last check of its call.
DeniedCheckIsLast ==
  LET checks == SelectSeq(log, IsCheck) IN
  \A r \in 1..Len(checks) : checks[r].val = PyFalse => r = Len(checks)

====
